---------------------------- MODULE Spec2Model ----------------------------
(***************************************************************************)
(* Model of the Discord auction bot of src/main.py: the registry           *)
(* `auctions`, AuctionState objects with their countdown task and          *)
(* asyncio.Lock, and the three handlers (the /auction command, the         *)
(* bid dialog BidModal.on_submit, the force-close button of                *)
(* on_interaction) together with end_auction.                              *)
(*                                                                         *)
(* The program runs on one asyncio event loop: code between two awaits     *)
(* runs atomically.  Every action below is one such segment: it starts     *)
(* when an awaited call returns (or raises) and ends at the next await.    *)
(* An awaited I/O call returns (ok = TRUE) or raises (ok = FALSE).         *)
(* One channel is modelled; `auctions` is the registry entry of that       *)
(* channel's id.                                                           *)
(***************************************************************************)
EXTENDS Integers, Sequences, FiniteSets, TLC

(* ---------------------------- bounds ----------------------------------- *)
MaxOpens == 2        \* /auction requests; request o creates AuctionState o
MaxBidders == 2      \* bid dialogs; dialog b belongs to user b
MaxClosers == 1      \* clicks on the force-close button
SoloBidders == 1     \* bid dialogs of Spec, which runs every /auction request
SoloOpens == 1       \* /auction requests of SpecBids, which runs every dialog
MaxTime == 2         \* the clock runs from 0 to MaxTime, in ticks
SleepTicks == 1      \* the clock's resolution: ticks per asyncio.sleep(5)
MaxDuration == 2     \* the longest duration_sec of an auction, in ticks
MaxTextLen == 5      \* the longest text typed into the dialog of SpecParse

Openers == 1..MaxOpens
Aucs == Openers
Bidders == 1..MaxBidders
Closers == 1..MaxClosers
Users == 1..3
OwnerUser == 1       \* the user who issues the /auction commands
None == 0            \* Python's None: no registry entry, no bidder, free lock

StartPrices == {1, 2}
Durations == 1..MaxDuration

\* texts typed into the bid dialog, as sequences of characters
BidTexts == { <<"x">>, <<"2">>, <<",", "3">> }

\* every text of at most MaxTextLen characters over a small alphabet: two
\* digits, a blank, and a character that is neither
ParseChars == {"0", "1", ",", " "}
ParseTexts == UNION { [1..n -> ParseChars] : n \in 0..MaxTextLen }

(* --------------------------- pure helpers ------------------------------ *)
DigitChars == {"0", "1", "2", "3", "4", "5", "6", "7", "8", "9"}

IsDigit(c) == c \in DigitChars

DigitVal(c) ==
  CASE c = "0" -> 0 [] c = "1" -> 1 [] c = "2" -> 2 [] c = "3" -> 3
    [] c = "4" -> 4 [] c = "5" -> 5 [] c = "6" -> 6 [] c = "7" -> 7
    [] c = "8" -> 8 [] c = "9" -> 9

\* str.strip(): the text without its leading and trailing blanks
Strip(text) ==
  LET inked == {i \in 1..Len(text) : text[i] # " "} IN
  IF inked = {} THEN <<>>
  ELSE SubSeq(text, CHOOSE i \in inked : \A j \in inked : i <= j,
                    CHOOSE i \in inked : \A j \in inked : i >= j)

\* a slip: the text is read up to its first non-digit, as int() would
RECURSIVE DigitsLeading(_)
DigitsLeading(raw) ==
  IF raw = <<>> \/ ~IsDigit(Head(raw)) THEN <<>>
  ELSE <<Head(raw)>> \o DigitsLeading(Tail(raw))

\* re.sub(r"\D", "", raw): the digits of raw, in order
DigitsOf(raw) == SelectSeq(raw, IsDigit)

\* int(digits) for a non-empty digit string
RECURSIVE ToInt(_)
ToInt(ds) ==
  IF Len(ds) = 0 THEN 0
  ELSE 10 * ToInt(SubSeq(ds, 1, Len(ds) - 1)) + DigitVal(ds[Len(ds)])

(* ------------------------------ state ---------------------------------- *)
VARIABLES
  now,        \* discord.utils.utcnow().timestamp()
  auctions,   \* auctions[channel.id]: an AuctionState, or None when absent
  st,         \* the fields of each AuctionState
  task,       \* each AuctionState's countdown task (state.task)
  lock,       \* each AuctionState's asyncio.Lock: its holder, or None
  opener,     \* the /auction command handlers: where each one is
  bidder,     \* the bid dialogs (bid button, then BidModal.on_submit):
              \* raw is bid_value.value, bid the parsed amount, told the
              \* amount written into the reply, logged whether the refresh
              \* failure was printed
  closer,     \* the force-close button handlers
  announced,  \* history: the outcome texts channel.send has published
  edits,      \* history: final display updates end_auction has issued
  pops,       \* history: executions of auctions.pop in end_auction
  accepted    \* history: the bids on_submit has applied

vars == <<now, auctions, st, task, lock, opener, bidder, closer,
          announced, edits, pops, accepted>>

NoText == [winner |-> None, amount |-> 0]
NoBid == -1          \* no amount has been parsed

\* a slip: the new auction's highest_bid left at zero
InitHighestBidZero(start_price) == 0

\* highest_bid of a new AuctionState
InitHighestBid(start_price) == start_price

NoAuction ==
  [created |-> FALSE, start_price |-> 0, highest_bid |-> 0,
   highest_bidder |-> None, ends_at |-> 0, owner |-> None]

NoTask == [pc |-> "none", wakeAt |-> 0, cancel |-> FALSE, wt |-> NoText]

Init ==
  /\ now = 0
  /\ auctions = None
  /\ st = [a \in Aucs |-> NoAuction]
  /\ task = [a \in Aucs |-> NoTask]
  /\ lock = [a \in Aucs |-> None]
  /\ opener = [o \in Openers |-> "idle"]
  /\ bidder = [b \in Bidders |->
                 [pc |-> "idle", state |-> None, raw |-> <<>>, bid |-> NoBid,
                  wt |-> NoText, result |-> "none", told |-> NoBid,
                  logged |-> FALSE]]
  /\ closer = [c \in Closers |->
                 [pc |-> "idle", state |-> None, wt |-> NoText,
                  result |-> "none"]]
  /\ announced = [a \in Aucs |-> <<>>]
  /\ edits = [a \in Aucs |-> 0]
  /\ pops = [a \in Aucs |-> 0]
  /\ accepted = [a \in Aucs |-> <<>>]

(* --------------------------- the clock --------------------------------- *)
\* time passes between two callbacks of the event loop; the clock is read
\* only by AuctionState objects, and tick 0 is the first one's creation
Tick ==
  /\ now < MaxTime
  /\ \E a \in Aucs : st[a].created
  /\ now' = now + 1
  /\ UNCHANGED <<auctions, st, task, lock, opener, bidder, closer,
                 announced, edits, pops, accepted>>

(* ------------------------ end_auction pieces --------------------------- *)
\* winner_text of end_auction
WinnerText(a) ==
  IF st[a].highest_bidder # None
  THEN [winner |-> st[a].highest_bidder, amount |-> st[a].highest_bid]
  ELSE NoText

\* a slip: the countdown is left running
CancelTaskNever(a) == task

\* state.task.cancel(): a request, delivered when the task next resumes;
\* no effect on a finished task
CancelTask(a) ==
  [task EXCEPT ![a].cancel = (@ \/ task[a].pc # "done")]

\* a slip: the registry entry is removed at the end of the try block
\* instead of in a finally, and so not at all on this way out
PopRegistryNever(a) == UNCHANGED <<auctions, pops>>

\* end_auction's finally: auctions.pop(state.channel.id, None)
PopRegistry(a) ==
  /\ auctions' = None
  /\ pops' = [pops EXCEPT ![a] = @ + 1]

\* channel.send(winner_text) has returned
Publish(a, text) == announced' = [announced EXCEPT ![a] = Append(@, text)]

(* -------------------------- /auction command --------------------------- *)
\* a slip: the occupancy check dropped
OccupiedNever == FALSE

\* `channel.id in auctions`
Occupied == auctions # None

\* the command arrives: the occupancy check, then either the private
\* refusal or `await interaction.response.defer()`
OpenRequest(o) ==
  /\ opener[o] = "idle"
  /\ \A p \in Openers : p < o => opener[p] # "idle"
  /\ opener' = [opener EXCEPT ![o] = IF Occupied THEN "refuse" ELSE "defer"]
  /\ UNCHANGED <<now, auctions, st, task, lock, bidder, closer,
                 announced, edits, pops, accepted>>

\* the refusal has been sent (or sending it raised): return
OpenRefused(o, ok) ==
  /\ opener[o] = "refuse"
  /\ opener' = [opener EXCEPT ![o] = "done"]
  /\ UNCHANGED <<now, auctions, st, task, lock, bidder, closer,
                 announced, edits, pops, accepted>>

\* defer() has returned: `await interaction.followup.send(...)`; or it
\* raised, and the handler ends
OpenDeferred(o, ok) ==
  /\ opener[o] = "defer"
  /\ opener' = [opener EXCEPT ![o] = IF ok THEN "send" ELSE "done"]
  /\ UNCHANGED <<now, auctions, st, task, lock, bidder, closer,
                 announced, edits, pops, accepted>>

\* followup.send has returned: AuctionState(...) is built (its countdown
\* task is created and first sleeps), it is registered, and the handler
\* ends in `await msg.edit(...)`, whose result changes nothing
OpenCreate(o, ok, start_price, duration_sec) ==
  /\ opener[o] = "send"
  /\ opener' = [opener EXCEPT ![o] = "done"]
  /\ IF ok
     THEN /\ st' = [st EXCEPT ![o] =
                      [created |-> TRUE, start_price |-> start_price,
                       highest_bid |-> InitHighestBid(start_price),
                       highest_bidder |-> None,
                       ends_at |-> now + duration_sec,
                       owner |-> OwnerUser]]
          /\ task' = [task EXCEPT ![o] =
                        [pc |-> "sleep", wakeAt |-> now + SleepTicks,
                         cancel |-> FALSE, wt |-> NoText]]
          /\ auctions' = o
     ELSE UNCHANGED <<st, task, auctions>>
  /\ UNCHANGED <<now, lock, bidder, closer, announced, edits, pops, accepted>>

(* --------------------------- countdown task ---------------------------- *)
\* a slip: the expiry test strict, so the instant ends_at itself is open
ExpiredStrict(a) == now > st[a].ends_at

\* `now_ts >= state.ends_at` / `remaining <= 0`
Expired(a) == now >= st[a].ends_at

\* asyncio.sleep(5) has returned: close-out when the time is over (up to
\* end_auction's `await state.message.edit`), else the periodic refresh
CountdownWake(a) ==
  /\ task[a].pc = "sleep"
  /\ ~task[a].cancel
  /\ now >= task[a].wakeAt
  /\ IF Expired(a)
     THEN /\ task' = [task EXCEPT ![a].pc = "edit", ![a].wakeAt = 0,
                                   ![a].wt = WinnerText(a)]
          /\ edits' = [edits EXCEPT ![a] = @ + 1]
     ELSE /\ task' = [task EXCEPT ![a].pc = "refresh", ![a].wakeAt = 0]
          /\ UNCHANGED edits
  /\ UNCHANGED <<now, auctions, st, lock, opener, bidder, closer,
                 announced, pops, accepted>>

\* the periodic message.edit has returned or raised (ignored): sleep again
CountdownRefreshed(a, ok) ==
  /\ task[a].pc = "refresh"
  /\ ~task[a].cancel
  /\ task' = [task EXCEPT ![a].pc = "sleep", ![a].wakeAt = now + SleepTicks]
  /\ UNCHANGED <<now, auctions, st, lock, opener, bidder, closer,
                 announced, edits, pops, accepted>>

\* end_auction's message.edit has returned: channel.send; or it raised:
\* except, finally
CountdownEdited(a, ok) ==
  /\ task[a].pc = "edit"
  /\ ~task[a].cancel
  /\ IF ok
     THEN /\ task' = [task EXCEPT ![a].pc = "send"]
          /\ UNCHANGED <<auctions, pops>>
     ELSE /\ task' = [task EXCEPT ![a].pc = "done", ![a].wt = NoText]
          /\ PopRegistry(a)
  /\ UNCHANGED <<now, st, lock, opener, bidder, closer,
                 announced, edits, accepted>>

\* end_auction's channel.send has returned or raised: finally, break
CountdownSent(a, ok) ==
  /\ task[a].pc = "send"
  /\ ~task[a].cancel
  /\ IF ok THEN Publish(a, task[a].wt) ELSE UNCHANGED announced
  /\ task' = [task EXCEPT ![a].pc = "done", ![a].wt = NoText]
  /\ PopRegistry(a)
  /\ UNCHANGED <<now, st, lock, opener, bidder, closer, edits, accepted>>

\* CancelledError is raised at the await the task is suspended in.  Inside
\* end_auction `except Exception` does not catch it, the finally runs; a
\* channel.send that was in flight may or may not have been delivered
CountdownCancelled(a, delivered) ==
  /\ task[a].cancel
  /\ task[a].pc \in {"sleep", "refresh", "edit", "send"}
  /\ IF task[a].pc \in {"edit", "send"}
     THEN PopRegistry(a)
     ELSE UNCHANGED <<auctions, pops>>
  /\ IF task[a].pc = "send" /\ delivered
     THEN Publish(a, task[a].wt)
     ELSE UNCHANGED announced
  /\ task' = [task EXCEPT ![a].pc = "done", ![a].wakeAt = 0, ![a].wt = NoText]
  /\ UNCHANGED <<now, st, lock, opener, bidder, closer, edits, accepted>>

(* ------------------------------ bid dialog ----------------------------- *)
\* a slip: the rejection test strict, so a bid equal to highest_bid passes
BidTooLowStrict(bid, a) == bid < st[a].highest_bid \/ bid < st[a].start_price

\* the rejection test of on_submit
BidTooLow(bid, a) == bid <= st[a].highest_bid \/ bid < st[a].start_price

\* on_interaction, custom_id "bid_open": the registry lookup, then either
\* the private refusal or send_modal(BidModal(state)); the dialog keeps the
\* AuctionState it was built with.  (The dialog's timeout of 60 s is longer
\* than MaxTime.)
BidOpen(b, ok) ==
  /\ bidder[b].pc = "idle"
  /\ IF auctions = None
     THEN bidder' = [bidder EXCEPT ![b].pc = "done"]
     ELSE IF ok
          THEN bidder' = [bidder EXCEPT ![b].pc = "modal",
                                        ![b].state = auctions]
          ELSE bidder' = [bidder EXCEPT ![b].pc = "done"]
  /\ UNCHANGED <<now, auctions, st, task, lock, opener, closer,
                 announced, edits, pops, accepted>>

\* on_submit from `async with state.lock` entered to its next await, for
\* dialog b on AuctionState a with the text raw
LockedSegment(b, a, raw) ==
  /\ lock' = [lock EXCEPT ![a] = b]
  /\ IF Expired(a)
     THEN \* state.task.cancel(); end_auction up to its message.edit
          /\ task' = CancelTask(a)
          /\ edits' = [edits EXCEPT ![a] = @ + 1]
          /\ bidder' = [bidder EXCEPT ![b].pc = "x_edit", ![b].raw = raw,
                                      ![b].wt = WinnerText(a),
                                      ![b].result = "AlreadyClosed"]
          /\ UNCHANGED <<st, accepted>>
     ELSE /\ UNCHANGED <<task, edits>>
          /\ IF DigitsOf(Strip(raw)) = <<>>
             THEN /\ bidder' = [bidder EXCEPT ![b].pc = "reply",
                                              ![b].raw = raw,
                                              ![b].result = "NotAnInteger"]
                  /\ UNCHANGED <<st, accepted>>
             ELSE LET bid == ToInt(DigitsOf(Strip(raw))) IN
                  IF BidTooLow(bid, a)
                  THEN /\ bidder' = [bidder EXCEPT ![b].pc = "reply",
                                                   ![b].raw = raw,
                                                   ![b].bid = bid,
                                                   ![b].told =
                                                     st[a].highest_bid,
                                                   ![b].result = "BidTooLow"]
                       /\ UNCHANGED <<st, accepted>>
                  ELSE \* the update, then `await state.message.edit`
                       /\ st' = [st EXCEPT ![a].highest_bid = bid,
                                           ![a].highest_bidder = b]
                       /\ accepted' = [accepted EXCEPT ![a] =
                             Append(@, [amount |-> bid,
                                        prev |-> st[a].highest_bid])]
                       /\ bidder' = [bidder EXCEPT ![b].pc = "refresh",
                                                   ![b].raw = raw,
                                                   ![b].bid = bid,
                                                   ![b].result = "Accepted"]
  /\ UNCHANGED <<now, auctions, opener, closer, announced, pops>>

\* asyncio.Lock.acquire returns at once when the lock is free and nobody
\* waits for it
LockFree(a) ==
  /\ lock[a] = None
  /\ \A w \in Bidders : ~(bidder[w].pc = "wait" /\ bidder[w].state = a)

\* the dialog is submitted with the text raw
BidSubmit(b, raw) ==
  /\ bidder[b].pc = "modal"
  /\ LET a == bidder[b].state IN
     IF LockFree(a)
     THEN LockedSegment(b, a, raw)
     ELSE /\ bidder' = [bidder EXCEPT ![b].pc = "wait", ![b].raw = raw]
          /\ UNCHANGED <<now, auctions, st, task, lock, opener, closer,
                         announced, edits, pops, accepted>>

\* a waiting on_submit gets the released lock
BidAcquire(b) ==
  /\ bidder[b].pc = "wait"
  /\ lock[bidder[b].state] = None
  /\ LockedSegment(b, bidder[b].state, bidder[b].raw)

\* a slip: no try/except around the refresh, so its failure leaves
\* on_submit (and the lock) without a reply
BidRefreshedRaises(b, ok) ==
  /\ bidder[b].pc = "refresh"
  /\ IF ok
     THEN /\ bidder' = [bidder EXCEPT ![b].pc = "reply",
                                      ![b].told = bidder[b].bid]
          /\ UNCHANGED lock
     ELSE /\ bidder' = [bidder EXCEPT ![b].pc = "done", ![b].state = None,
                                      ![b].raw = <<>>, ![b].bid = NoBid,
                                      ![b].result = "none"]
          /\ lock' = [lock EXCEPT ![bidder[b].state] = None]
  /\ UNCHANGED <<now, auctions, st, task, opener, closer,
                 announced, edits, pops, accepted>>

\* the display refresh after an accepted bid has returned, or raised (the
\* failure is printed and ignored): the reply to the bidder, with the bid
BidRefreshed(b, ok) ==
  /\ bidder[b].pc = "refresh"
  /\ bidder' = [bidder EXCEPT ![b].pc = "reply", ![b].logged = ~ok,
                              ![b].told = bidder[b].bid]
  /\ UNCHANGED <<now, auctions, st, task, lock, opener, closer,
                 announced, edits, pops, accepted>>

\* end_auction called by an expired bid: its message.edit has returned
\* (channel.send) or raised (except, finally, then the reply)
BidCloseEdited(b, ok) ==
  /\ bidder[b].pc = "x_edit"
  /\ IF ok
     THEN /\ bidder' = [bidder EXCEPT ![b].pc = "x_send"]
          /\ UNCHANGED <<auctions, pops>>
     ELSE /\ bidder' = [bidder EXCEPT ![b].pc = "reply", ![b].wt = NoText]
          /\ PopRegistry(bidder[b].state)
  /\ UNCHANGED <<now, st, task, lock, opener, closer,
                 announced, edits, accepted>>

\* end_auction called by an expired bid: its channel.send has returned or
\* raised; finally, then the reply
BidCloseSent(b, ok) ==
  /\ bidder[b].pc = "x_send"
  /\ IF ok THEN Publish(bidder[b].state, bidder[b].wt)
           ELSE UNCHANGED announced
  /\ bidder' = [bidder EXCEPT ![b].pc = "reply", ![b].wt = NoText]
  /\ PopRegistry(bidder[b].state)
  /\ UNCHANGED <<now, st, task, lock, opener, closer, edits, accepted>>

\* a slip: the lock is acquired and released by hand, and a reply that
\* raises leaves on_submit before the release
BidRepliedLeakOnError(b, ok) ==
  /\ bidder[b].pc = "reply"
  /\ bidder' = [bidder EXCEPT ![b].pc = "done", ![b].state = None,
                              ![b].raw = <<>>, ![b].bid = NoBid,
                              ![b].result = "none", ![b].told = NoBid,
                              ![b].logged = FALSE]
  /\ lock' = IF ok THEN [lock EXCEPT ![bidder[b].state] = None] ELSE lock
  /\ UNCHANGED <<now, auctions, st, task, opener, closer,
                 announced, edits, pops, accepted>>

\* a slip: the lock is acquired and released by hand, and the early
\* returns of the rejections leave without releasing it
BidRepliedLeak(b, ok) ==
  /\ bidder[b].pc = "reply"
  /\ bidder' = [bidder EXCEPT ![b].pc = "done", ![b].state = None,
                              ![b].raw = <<>>, ![b].bid = NoBid,
                              ![b].result = "none", ![b].told = NoBid,
                              ![b].logged = FALSE]
  /\ lock' = IF bidder[b].result \in {"NotAnInteger", "BidTooLow"}
             THEN lock
             ELSE [lock EXCEPT ![bidder[b].state] = None]
  /\ UNCHANGED <<now, auctions, st, task, opener, closer,
                 announced, edits, pops, accepted>>

\* interaction.response.send_message has returned or raised: on_submit
\* leaves `async with state.lock` and the dialog is gone
BidReplied(b, ok) ==
  /\ bidder[b].pc = "reply"
  /\ bidder' = [bidder EXCEPT ![b].pc = "done", ![b].state = None,
                              ![b].raw = <<>>, ![b].bid = NoBid,
                              ![b].result = "none", ![b].told = NoBid,
                              ![b].logged = FALSE]
  /\ lock' = [lock EXCEPT ![bidder[b].state] = None]
  /\ UNCHANGED <<now, auctions, st, task, opener, closer,
                 announced, edits, pops, accepted>>

(* ----------------------------- force-close ----------------------------- *)
\* `is_owner or is_mod`
MayClose(user, is_mod, a) == user = st[a].owner \/ is_mod

\* on_interaction, custom_id "auction_end", to its first await: the
\* registry lookup, the permission check, state.task.cancel() and the
\* reply being sent
ForceClose(c, user, is_mod) ==
  /\ closer[c].pc = "idle"
  /\ \A p \in Closers : p < c => closer[p].pc # "idle"
  /\ IF auctions = None
     THEN /\ closer' = [closer EXCEPT ![c].pc = "done",
                                      ![c].result = "NotFound"]
          /\ UNCHANGED task
     ELSE IF ~MayClose(user, is_mod, auctions)
          THEN /\ closer' = [closer EXCEPT ![c].pc = "done",
                                           ![c].state = auctions,
                                           ![c].result = "Unauthorized"]
               /\ UNCHANGED task
          ELSE /\ closer' = [closer EXCEPT ![c].pc = "reply",
                                           ![c].state = auctions]
               /\ task' = CancelTask(auctions)
  /\ UNCHANGED <<now, auctions, st, lock, opener, bidder,
                 announced, edits, pops, accepted>>

\* the reply has returned: end_auction up to its message.edit; or it
\* raised, and the handler ends there
CloseReplied(c, ok) ==
  /\ closer[c].pc = "reply"
  /\ IF ok
     THEN /\ closer' = [closer EXCEPT ![c].pc = "edit",
                                      ![c].wt = WinnerText(closer[c].state)]
          /\ edits' = [edits EXCEPT ![closer[c].state] = @ + 1]
     ELSE /\ closer' = [closer EXCEPT ![c].pc = "done",
                                      ![c].result = "Error"]
          /\ UNCHANGED edits
  /\ UNCHANGED <<now, auctions, st, task, lock, opener, bidder,
                 announced, pops, accepted>>

\* end_auction called by force-close: its message.edit has returned
\* (channel.send) or raised (except, finally)
CloseEdited(c, ok) ==
  /\ closer[c].pc = "edit"
  /\ IF ok
     THEN /\ closer' = [closer EXCEPT ![c].pc = "send"]
          /\ UNCHANGED <<auctions, pops>>
     ELSE /\ closer' = [closer EXCEPT ![c].pc = "done", ![c].wt = NoText,
                                      ![c].result = "Closed"]
          /\ PopRegistry(closer[c].state)
  /\ UNCHANGED <<now, st, task, lock, opener, bidder,
                 announced, edits, accepted>>

\* end_auction called by force-close: its channel.send has returned or
\* raised; finally
CloseSent(c, ok) ==
  /\ closer[c].pc = "send"
  /\ IF ok THEN Publish(closer[c].state, closer[c].wt)
           ELSE UNCHANGED announced
  /\ closer' = [closer EXCEPT ![c].pc = "done", ![c].wt = NoText,
                              ![c].result = "Closed"]
  /\ PopRegistry(closer[c].state)
  /\ UNCHANGED <<now, st, task, lock, opener, bidder, edits, accepted>>

(* --------------------------- specification ----------------------------- *)
OpenSteps(Os) ==
  \/ \E o \in Os : OpenRequest(o)
  \/ \E o \in Os, ok \in BOOLEAN : OpenDeferred(o, ok)
  \/ \E o \in Os, ok \in BOOLEAN, sp \in StartPrices, d \in Durations :
       OpenCreate(o, ok, sp, d)

CountdownSteps ==
  \/ \E a \in Aucs : CountdownWake(a)
  \/ \E a \in Aucs, ok \in BOOLEAN : CountdownRefreshed(a, ok)
  \/ \E a \in Aucs, ok \in BOOLEAN : CountdownEdited(a, ok)
  \/ \E a \in Aucs, ok \in BOOLEAN : CountdownSent(a, ok)
  \/ \E a \in Aucs, delivered \in BOOLEAN : CountdownCancelled(a, delivered)

BidStepsOn(Bs, Texts) ==
  \/ \E b \in Bs, ok \in BOOLEAN : BidOpen(b, ok)
  \/ \E b \in Bs, raw \in Texts : BidSubmit(b, raw)
  \/ \E b \in Bs, ok \in BOOLEAN : BidRefreshed(b, ok)
  \/ \E b \in Bs, ok \in BOOLEAN : BidCloseEdited(b, ok)
  \/ \E b \in Bs, ok \in BOOLEAN : BidCloseSent(b, ok)
  \/ \E b \in Bs, ok \in BOOLEAN : BidReplied(b, ok)

BidSteps(Bs) == BidStepsOn(Bs, BidTexts)

CloseSteps ==
  \/ \E c \in Closers, u \in Users, m \in BOOLEAN : ForceClose(c, u, m)
  \/ \E c \in Closers, ok \in BOOLEAN : CloseReplied(c, ok)
  \/ \E c \in Closers, ok \in BOOLEAN : CloseEdited(c, ok)
  \/ \E c \in Closers, ok \in BOOLEAN : CloseSent(c, ok)

\* every /auction request, one bid dialog, the force-close button
Next ==
  \/ Tick
  \/ OpenSteps(Openers)
  \/ \E o \in Openers, ok \in BOOLEAN : OpenRefused(o, ok)
  \/ CountdownSteps
  \/ BidSteps(1..SoloBidders)
  \/ CloseSteps

Spec == Init /\ [][Next]_vars

\* one /auction request, every bid dialog, the force-close button
NextBids ==
  \/ Tick
  \/ OpenSteps(1..SoloOpens)
  \/ CountdownSteps
  \/ BidSteps(Bidders)
  \/ \E b \in Bidders : BidAcquire(b)
  \/ CloseSteps

SpecBids == Init /\ [][NextBids]_vars

\* SpecBids with the event loop's scheduling: an awaited Discord call of a
\* dialog returns or raises in the end, and a dialog waiting for a free
\* lock is resumed
BidProgress(b) ==
  \/ \E ok \in BOOLEAN : BidRefreshed(b, ok)
  \/ \E ok \in BOOLEAN : BidCloseEdited(b, ok)
  \/ \E ok \in BOOLEAN : BidCloseSent(b, ok)
  \/ \E ok \in BOOLEAN : BidReplied(b, ok)
  \/ BidAcquire(b)

FairBids == SpecBids /\ \A b \in Bidders : WF_vars(BidProgress(b))

\* as Next, but the /auction commands are issued one after the other: a
\* request is made when the handlers of the earlier ones have returned
OpenRequestInTurn(o) ==
  /\ \A p \in Openers : p < o => opener[p] = "done"
  /\ OpenRequest(o)

NextTurns ==
  \/ Tick
  \/ \E o \in Openers : OpenRequestInTurn(o)
  \/ \E o \in Openers, ok \in BOOLEAN : OpenDeferred(o, ok)
  \/ \E o \in Openers, ok \in BOOLEAN, sp \in StartPrices, d \in Durations :
       OpenCreate(o, ok, sp, d)
  \/ \E o \in Openers, ok \in BOOLEAN : OpenRefused(o, ok)
  \/ CountdownSteps
  \/ BidSteps(1..SoloBidders)
  \/ CloseSteps

SpecTurns == Init /\ [][NextTurns]_vars

\* one /auction request and one bid dialog, with every text of ParseTexts;
\* nobody clicks the force-close button
NextParse ==
  \/ Tick
  \/ OpenSteps(1..SoloOpens)
  \/ CountdownSteps
  \/ BidStepsOn(1..SoloBidders, ParseTexts)

SpecParse == Init /\ [][NextParse]_vars

(* ------------------------------ claims --------------------------------- *)
\* on_submit is past `async with state.lock` and has not left it
InLock(b) == bidder[b].pc \in {"refresh", "x_edit", "x_send", "reply"}

\* dialog b takes its decision in this step (it runs LockedSegment)
Decides(b) == bidder[b].pc \in {"modal", "wait"} /\ InLock(b)'

\* close-out has run to its registry removal for auction a
Closed(a) == pops[a] > 0

RECURSIVE MaxOf(_)
MaxOf(S) ==
  IF S = {} THEN 0
  ELSE LET x == CHOOSE y \in S : TRUE
           m == MaxOf(S \ {x})
       IN IF x > m THEN x ELSE m

AcceptedAmounts(a) == {accepted[a][i].amount : i \in 1..Len(accepted[a])}

\* C1: for one auction the close-out effects happen at most once: one
\* announcement, one final display update, one registry removal.
C1_CloseOutOnce ==
  \A a \in Aucs :
    /\ Len(announced[a]) <= 1
    /\ edits[a] <= 1
    /\ pops[a] <= 1

\* C2: once an auction has been closed, a bid decided afterwards is answered
\* AlreadyClosed and leaves highest_bid and highest_bidder as they were.
C2_ClosedRejectsBids ==
  [][\A b \in Bidders :
       (Decides(b) /\ Closed(bidder[b].state))
         => /\ bidder'[b].result = "AlreadyClosed"
            /\ st' = st]_vars

\* C3: at most one live auction (created, countdown started, not yet
\* closed) for the channel at every moment.
Live(a) == st[a].created /\ task[a].pc # "none" /\ ~Closed(a)

C3_OneLiveAuction == Cardinality({a \in Aucs : Live(a)}) <= 1

\* C4: on an unexpired auction a bid whose amount is <= the highest_bid it
\* finds under the lock is rejected with BidTooLow and changes nothing; bids
\* are ordered by the lock: at most one on_submit is inside the lock of an
\* auction, and every accepted bid was validated against the amount
\* written by the accepted bid before it (the start price for the first).
C4_Rejects ==
  \A b \in Bidders :
    (Decides(b) /\ bidder'[b].result # "AlreadyClosed"
                /\ bidder'[b].bid # NoBid
                /\ bidder'[b].bid <= st[bidder[b].state].highest_bid)
      => /\ bidder'[b].result = "BidTooLow"
         /\ lock'[bidder[b].state] = b
         /\ st' = st
         /\ accepted' = accepted

C4_Ordered ==
  /\ \A b1, b2 \in Bidders :
       (b1 # b2 /\ InLock(b1) /\ InLock(b2))
         => bidder[b1].state # bidder[b2].state
  /\ \A b \in Bidders : InLock(b) => lock[bidder[b].state] = b
  /\ \A a \in Aucs : \A i \in 1..Len(accepted[a]) :
       /\ accepted[a][i].amount > accepted[a][i].prev
       /\ accepted[a][i].prev =
            IF i = 1 THEN st[a].start_price ELSE accepted[a][i - 1].amount

\* C4: a bid <= highest_bid is always rejected with BidTooLow and changes
\* nothing, and bids are totally ordered by the lock.
C4_BidTooLow == [](C4_Ordered) /\ [][C4_Rejects]_vars

\* a second bid was rejected as too low after a first one was accepted
C4_Witness ==
  \E b \in Bidders :
    /\ bidder[b].pc = "reply"
    /\ bidder[b].result = "BidTooLow"
    /\ Len(accepted[bidder[b].state]) >= 1
    /\ bidder[b].bid <= st[bidder[b].state].highest_bid

\* C5: highest_bid never decreases, is always >= start_price and equals the
\* greatest accepted amount, or start_price when no bid has been accepted.
C5_Value ==
  \A a \in Aucs :
    st[a].created =>
      /\ st[a].highest_bid >= st[a].start_price
      /\ st[a].highest_bid =
           IF accepted[a] = <<>> THEN st[a].start_price
           ELSE MaxOf(AcceptedAmounts(a))

C5_Monotone ==
  \A a \in Aucs :
    st[a].created => st'[a].highest_bid >= st[a].highest_bid

\* C5: highest_bid is non-decreasing, >= start_price, and the maximum of
\* the accepted amounts (start_price when there is none).
C5_HighestBid == [](C5_Value) /\ [][C5_Monotone]_vars

\* two bids have been accepted one after the other
C5_Witness == \E a \in Aucs : Len(accepted[a]) = 2

\* C6: the outcome announced by close-out names the final highest_bidder
\* and highest_bid of the closed auction (no winner only if no bid was ever
\* accepted): no bid is accepted after the outcome text is determined.
C6_AnnouncedIsFinal ==
  \A a \in Aucs :
    Closed(a) =>
      \A i \in 1..Len(announced[a]) : announced[a][i] = WinnerText(a)

\* C7: no failure of a best-effort I/O call leaves an auction registered
\* with no process left to close it: a registered auction has a countdown
\* task that still runs, or a handler in flight that holds it.
CountdownRuns(a) ==
  \/ task[a].pc \in {"sleep", "refresh"} /\ ~task[a].cancel
  \/ task[a].pc \in {"edit", "send"}

HandlerInFlight(a) ==
  \/ \E b \in Bidders :
       bidder[b].state = a /\ (bidder[b].pc = "wait" \/ InLock(b))
  \/ \E c \in Closers :
       closer[c].state = a /\ closer[c].pc \in {"reply", "edit", "send"}

C7_NoOrphan ==
  \A a \in Aucs :
    auctions = a => (CountdownRuns(a) \/ HandlerInFlight(a))

\* C8: a force-close by someone who is neither owner nor moderator is
\* answered Unauthorized and changes nothing; a force-close by the owner or
\* a moderator closes the auction, and the outcome it announces is "no
\* winner" when no bid was accepted.
C8_Unauthorized ==
  \A c \in Closers :
    (closer[c].pc = "idle" /\ closer'[c].result = "Unauthorized")
      => UNCHANGED <<now, auctions, st, task, lock, opener, bidder,
                     announced, edits, pops, accepted>>

C8_Authorized ==
  \A c \in Closers :
    (closer[c].pc \in {"reply", "edit", "send"} /\ closer'[c].pc = "done")
      => /\ Closed(closer[c].state)'
         /\ accepted[closer[c].state] = <<>>
              => \A i \in 1..Len(announced'[closer[c].state]) :
                   announced'[closer[c].state][i] = NoText

\* the first half of C8 alone: an Unauthorized force-close changes nothing
C8_UnauthorizedFrame == [][C8_Unauthorized]_vars

\* C8: an unauthorized force-close changes nothing and an authorized one
\* closes the auction, announcing no winner when no bid was accepted.
C8_ForceClose == [][C8_Unauthorized /\ C8_Authorized]_vars

\* C9: no bid is accepted at a time >= ends_at: highest_bid and
\* highest_bidder change only while now < ends_at, and an on_submit that
\* finds now >= ends_at under the lock cancels the countdown, starts
\* close-out and is answered AlreadyClosed whatever its text, the bid
\* fields and the accepted bids unchanged.
C9_NoChangeAfterEnd ==
  \A a \in Aucs :
    (st[a].created /\ st'[a] # st[a]) => now < st[a].ends_at

C9_LateBid ==
  \A b \in Bidders :
    (Decides(b) /\ now >= st[bidder[b].state].ends_at)
      => /\ bidder'[b].result = "AlreadyClosed"
         /\ bidder'[b].bid = NoBid
         /\ bidder'[b].pc = "x_edit"
         /\ edits'[bidder[b].state] = edits[bidder[b].state] + 1
         /\ st' = st
         /\ accepted' = accepted

\* C9: no bid is accepted at a time >= ends_at; a bid decided then starts
\* close-out and is answered AlreadyClosed, whatever its text.
C9_NoBidAfterEnd == [][C9_NoChangeAfterEnd /\ C9_LateBid]_vars

\* an expired bid has started close-out while the countdown task, asleep,
\* has not woken to observe the expiry
C9_Witness ==
  \E b \in Bidders :
    /\ bidder[b].pc = "x_edit"
    /\ bidder[b].result = "AlreadyClosed"
    /\ task[bidder[b].state].pc = "sleep"
    /\ now >= st[bidder[b].state].ends_at

\* C10: an /auction request on a channel that has a registry entry is
\* answered AlreadyRunning and has no side effect: from the check to the
\* handler's return nothing but the handler's own position changes.
C10_Refuses ==
  \A o \in Openers :
    /\ (opener[o] = "idle" /\ opener'[o] # "idle" /\ auctions # None)
         => /\ opener'[o] = "refuse"
            /\ UNCHANGED <<now, auctions, st, task, lock, bidder, closer,
                           announced, edits, pops, accepted>>
    /\ (opener[o] = "refuse" /\ opener'[o] # "refuse")
         => /\ opener'[o] = "done"
            /\ ~st'[o].created
            /\ UNCHANGED <<now, auctions, st, task, lock, bidder, closer,
                           announced, edits, pops, accepted>>

\* C10: an /auction request on an occupied channel is answered
\* AlreadyRunning without side effects.
C10_AlreadyRunning == [][C10_Refuses]_vars

\* a request is being refused on an occupied channel whose auction has an
\* accepted bid
C10_Witness ==
  \E o \in Openers :
    /\ opener[o] = "refuse"
    /\ auctions # None
    /\ auctions # o
    /\ st[auctions].highest_bidder # None


\* ---------------------------------------------------------------------------
\* a caller of end_auction whose final display update is in flight / whose
\* publication is in flight
CountdownEdits(a) == task[a].pc = "edit" /\ ~task[a].cancel
BidEdits(b) == bidder[b].pc = "x_edit"
CloserEdits(c) == closer[c].pc = "edit"

\* C11: publishing the outcome does not depend on the final display update:
\* whoever runs close-out, when its final display update returns or raises,
\* close-out goes on to publish the outcome text
C11_PublishIndependent ==
  [][ /\ \A a \in Aucs :
           CountdownEdits(a) /\ task'[a].pc # "edit" => task'[a].pc = "send"
      /\ \A b \in Bidders :
           BidEdits(b) /\ bidder'[b].pc # "x_edit" => bidder'[b].pc = "x_send"
      /\ \A c \in Closers :
           CloserEdits(c) /\ closer'[c].pc # "edit" => closer'[c].pc = "send"
    ]_vars


\* a caller is inside end_auction / leaves it in this step
CountdownClosing(a) == task[a].pc \in {"edit", "send"}
BidClosing(b) == bidder[b].pc \in {"x_edit", "x_send"}
CloserClosing(c) == closer[c].pc \in {"edit", "send"}

\* C12: once close-out has started, its caller leaves it only through the
\* registry removal for the channel, whether the final display update and
\* the publication returned, raised, or the countdown task was cancelled in
\* the middle; the channel is then free, and an open request that finds it
\* free is not refused
C12_Removes ==
  /\ \A a \in Aucs :
       CountdownClosing(a) /\ ~CountdownClosing(a)'
         => auctions' = None /\ pops'[a] = pops[a] + 1
  /\ \A b \in Bidders :
       BidClosing(b) /\ ~BidClosing(b)'
         => auctions' = None
            /\ pops'[bidder[b].state] = pops[bidder[b].state] + 1
  /\ \A c \in Closers :
       CloserClosing(c) /\ ~CloserClosing(c)'
         => auctions' = None
            /\ pops'[closer[c].state] = pops[closer[c].state] + 1

C12_OpenAfter ==
  \A o \in Openers :
    opener[o] = "idle" /\ opener'[o] # "idle" /\ auctions = None
      => opener'[o] = "defer"

C12_RegistryRemoved == [][C12_Removes /\ C12_OpenAfter]_vars

\* a close-out of a cancelled countdown's auction that published nothing
\* (its edit or publication failed, or it was cut short) has removed the
\* entry, and a later /auction request has passed the registry test
C12_Witness ==
  \E a \in Aucs, o \in Openers :
    /\ task[a].pc = "done"
    /\ task[a].cancel
    /\ Closed(a)
    /\ announced[a] = <<>>
    /\ auctions = None
    /\ o # a
    /\ opener[o] = "defer"


\* C13: a bid that passed validation stays accepted when the display refresh
\* fails: whether the refresh returned or raised, the handler goes on to
\* the reply Accepted(bid), and the auction keeps this bid as its highest
\* bid and this bidder as its highest bidder
C13_AfterRefresh ==
  \A b \in Bidders :
    bidder[b].pc = "refresh" /\ bidder'[b].pc # "refresh"
      => /\ bidder'[b].pc = "reply"
         /\ bidder'[b].result = "Accepted"
         /\ bidder'[b].told = bidder[b].bid
         /\ st'[bidder[b].state].highest_bid = bidder[b].bid
         /\ st'[bidder[b].state].highest_bidder = b
         /\ accepted' = accepted

C13_Kept ==
  \A b \in Bidders :
    bidder[b].result = "Accepted"
      => /\ st[bidder[b].state].highest_bid = bidder[b].bid
         /\ st[bidder[b].state].highest_bidder = b

C13_StaysAccepted == []C13_Kept /\ [][C13_AfterRefresh]_vars

\* the refresh has failed (it was printed) and the bidder is being told
\* Accepted with the amount that is the auction's highest bid
C13_Witness ==
  \E b \in Bidders :
    /\ bidder[b].pc = "reply"
    /\ bidder[b].logged
    /\ bidder[b].result = "Accepted"
    /\ bidder[b].told = st[bidder[b].state].highest_bid


Rejections == {"NotAnInteger", "BidTooLow"}

\* C14: a bid answered NotAnInteger or BidTooLow leaves the auction as it
\* was, both when it is decided and when its reply ends, and the end of its
\* reply frees the lock; BidTooLow reports the highest bid the auction has
\* at that time; a bid decided before the end time with an amount above the
\* highest bid (and not below the start price) is accepted, whatever was
\* rejected before it
C14_Frame == UNCHANGED <<auctions, st, task, announced, edits, pops, accepted>>

C14_RejectedStep ==
  \A b \in Bidders :
    /\ Decides(b) /\ bidder'[b].result \in Rejections
         => C14_Frame /\ bidder'[b].pc = "reply"
    /\ bidder[b].result \in Rejections /\ bidder'[b].pc # "reply"
         => C14_Frame /\ lock'[bidder[b].state] = None

C14_ValidStep ==
  \A b \in Bidders :
    LET a == bidder[b].state
        digits == DigitsOf(bidder'[b].raw)
    IN  /\ Decides(b)
        /\ now < st[a].ends_at
        /\ digits # <<>>
        /\ ToInt(digits) > st[a].highest_bid
        /\ ToInt(digits) >= st[a].start_price
        => /\ bidder'[b].result = "Accepted"
           /\ st'[a].highest_bid = ToInt(digits)

C14_Reports ==
  \A b \in Bidders :
    bidder[b].result = "BidTooLow"
      => bidder[b].told = st[bidder[b].state].highest_bid

C14_RejectionHarmless ==
  []C14_Reports /\ [][C14_RejectedStep /\ C14_ValidStep]_vars

\* a rejected bid holds the lock for its reply while a dialog with a valid
\* amount waits for it
C14_Witness ==
  \E b, w \in Bidders :
    /\ bidder[b].pc = "reply"
    /\ bidder[b].result \in Rejections
    /\ bidder[w].pc = "wait"
    /\ bidder[w].state = bidder[b].state
    /\ DigitsOf(bidder[w].raw) # <<>>
    /\ ToInt(DigitsOf(bidder[w].raw)) > st[bidder[b].state].highest_bid


\* the positions of the decimal digits of a text, and the number a text
\* denotes when each of its digits is weighted by the power of ten given by
\* the number of digits after it
DigitPositions(text) == {i \in 1..Len(text) : text[i] \in DigitChars}

RECURSIVE PowerOfTen(_)
PowerOfTen(n) == IF n = 0 THEN 1 ELSE 10 * PowerOfTen(n - 1)

RECURSIVE WeightedSum(_, _)
WeightedSum(text, positions) ==
  IF positions = {} THEN 0
  ELSE LET i == CHOOSE p \in positions : TRUE
           after == Cardinality({p \in DigitPositions(text) : p > i})
       IN  DigitVal(text[i]) * PowerOfTen(after)
             + WeightedSum(text, positions \ {i})

AmountOf(text) == WeightedSum(text, DigitPositions(text))

\* C15: for every text typed into the dialog, a bid decided before the end
\* time is answered NotAnInteger exactly when the text has no digit, and
\* otherwise its amount is the non-negative integer written by the digits
\* of the text, the other characters being discarded
C15_ParseStep ==
  \A b \in Bidders :
    Decides(b) /\ now < st[bidder[b].state].ends_at
      => LET text == bidder'[b].raw IN
         IF DigitPositions(text) = {}
         THEN /\ bidder'[b].result = "NotAnInteger"
              /\ bidder'[b].bid = NoBid
         ELSE /\ bidder'[b].result \in {"BidTooLow", "Accepted"}
              /\ bidder'[b].bid = AmountOf(text)
              /\ bidder'[b].bid >= 0

C15_Amount == [][C15_ParseStep]_vars

\* the text "1,000" has been read as the amount 1000
C15_Witness ==
  \E b \in Bidders :
    /\ bidder[b].raw = <<"1", ",", "0", "0", "0">>
    /\ bidder[b].bid = 1000
    /\ bidder[b].result = "Accepted"


\* the callers that are inside end_auction for auction a, and the holder of
\* a's lock (only on_submit ever acquires it)
CloseOutCallers(a) ==
  {<<"countdown", a>> : x \in {a} \cap {y \in Aucs : CountdownClosing(y)}}
    \cup {<<"bid", b>> : b \in {y \in Bidders :
                                  BidClosing(y) /\ bidder[y].state = a}}
    \cup {<<"close", c>> : c \in {y \in Closers :
                                    CloserClosing(y) /\ closer[y].state = a}}

LockHolder(a) ==
  IF lock[a] = None THEN <<"nobody", None>> ELSE <<"bid", lock[a]>>

\* C16: every invocation of close-out runs while its caller holds the
\* auction's lock
C16_CloseOutUnderLock ==
  \A a \in Aucs : \A caller \in CloseOutCallers(a) : LockHolder(a) = caller


\* C17: a force-close by an authorized identity cancels the countdown
\* before it invokes close-out: from the accepted click on, through the
\* reply and end_auction, the countdown is cancelled or has finished; and
\* a countdown that observes its cancellation while it sleeps or while its
\* periodic refresh is in flight ends there: it requests no display
\* update, runs no close-out and changes nothing else
C17_CancelledFirst ==
  \A c \in Closers :
    closer[c].pc \in {"reply", "edit", "send"}
      => task[closer[c].state].cancel \/ task[closer[c].state].pc = "done"

C17_SilentExit ==
  \A a \in Aucs :
    /\ task[a].cancel
    /\ task[a].pc \in {"sleep", "refresh"}
    /\ task'[a].pc # task[a].pc
    => /\ task'[a].pc = "done"
       /\ UNCHANGED <<auctions, st, announced, edits, pops, accepted>>

C17_CancelBeforeCloseOut == []C17_CancelledFirst /\ [][C17_SilentExit]_vars

\* the countdown, cancelled by the force-close, has ended without a
\* close-out of its own, and the handler's end_auction is in flight
C17_Witness ==
  \E c \in Closers :
    /\ closer[c].pc = "edit"
    /\ task[closer[c].state].pc = "done"
    /\ task[closer[c].state].cancel
    /\ edits[closer[c].state] = 1
    /\ pops[closer[c].state] = 0


\* a dialog's display refresh after its accepted bid is in flight
BidRefreshing(b) == bidder[b].pc = "refresh"

\* C18: in the bid path the lock is released after the mutation and before
\* the display refresh is requested: no dialog holds the auction's lock
\* while its display refresh is in flight
C18_NoIOUnderLock ==
  \A b \in Bidders :
    BidRefreshing(b) => lock[bidder[b].state] # b


\* C19: close-out removes only its own auction's registry entry: while an
\* auction is registered and not closed, the channel's entry is emptied
\* only by a close-out of that auction, never by an action concerning an
\* earlier auction of the channel
C19_OwnEntryOnly ==
  [][ \A a \in Aucs :
        auctions = a /\ ~Closed(a) /\ auctions' = None
          => pops'[a] = pops[a] + 1 ]_vars


\* C20: the lock neither leaks nor deadlocks: it is held only by a dialog
\* that is inside on_submit for this auction; a dialog that holds it, also
\* one that runs close-out while holding it, gets to the end of on_submit,
\* where the lock is free again; and every dialog waiting for the lock
\* acquires it in the end
C20_NoLeak ==
  \A a \in Aucs :
    lock[a] # None => InLock(lock[a]) /\ bidder[lock[a]].state = a

C20_Released ==
  \A b \in Bidders : InLock(b) ~> bidder[b].pc = "done"

C20_Acquires ==
  \A b \in Bidders : bidder[b].pc = "wait" ~> InLock(b)

C20_LockLive == []C20_NoLeak /\ C20_Released /\ C20_Acquires

\* a dialog that found the auction expired runs end_auction with the lock
\* held, while another dialog waits for the lock
C20_Witness ==
  \E b, w \in Bidders :
    /\ bidder[b].pc \in {"x_edit", "x_send"}
    /\ lock[bidder[b].state] = b
    /\ bidder[w].pc = "wait"
    /\ bidder[w].state = bidder[b].state

=============================================================================
